---- MODULE Spec2Model ----
(* Model of climate.c: a per-state aggregator over tab-delimited NOAA       *)
(* records.  main opens each argv file, analyze_file folds every line into  *)
(* the table `states` (an array of NUM_STATES pointers to malloc'ed          *)
(* climate_info structs), print_report renders the table.                   *)
(*                                                                          *)
(* Text is a sequence of one-character strings.  A double is a fixed-point  *)
(* number counted in hundredths (273.15 is 27315); a product that is not a  *)
(* whole number of hundredths is rounded, as a double product is rounded to *)
(* its own grid.                                                            *)
EXTENDS Integers, Sequences, FiniteSets, TLC

\* ------------------------------------------------------------------ bounds
MaxFiles == 2          \* at most this many file arguments
MaxRecords == 2        \* lines read in one run of Spec
ExtraRecords == 3      \* lines read after the table is full in SpecFull

\* ------------------------------------------------------- program constants
NUM_STATES == 50
NULL == 0

VARIABLES pc, argc, i, states, heap, line, stdout,
          nread, seen, nfolded, gh

vars == <<pc, argc, i, states, heap, line, stdout, nread, seen, nfolded, gh>>

\* ------------------------------------------------------------ C library
Space == {" ", "\n", "\t"}

DigitVal == ("0" :> 0) @@ ("1" :> 1) @@ ("2" :> 2) @@ ("3" :> 3) @@ ("4" :> 4)
         @@ ("5" :> 5) @@ ("6" :> 6) @@ ("7" :> 7) @@ ("8" :> 8) @@ ("9" :> 9)

\* C integer division truncates toward zero.
CDiv(a, b) == IF a >= 0 THEN a \div b ELSE -((-a) \div b)

RECURSIVE SkipSpace(_, _)
SkipSpace(s, k) ==
    IF k <= Len(s) /\ s[k] \in Space THEN SkipSpace(s, k + 1) ELSE k

\* Longest run of decimal digits of s from position k: <<value, next position>>.
RECURSIVE ScanDigits(_, _, _)
ScanDigits(s, k, acc) ==
    IF k <= Len(s) /\ s[k] \in DOMAIN DigitVal
    THEN ScanDigits(s, k + 1, acc * 10 + DigitVal[s[k]])
    ELSE <<acc, k>>

\* atol: leading white space, an optional sign, then digits; 0 when there are none.
atol(s) ==
    LET a == SkipSpace(s, 1)
        neg == a <= Len(s) /\ s[a] = "-"
        b == IF a <= Len(s) /\ s[a] \in {"-", "+"} THEN a + 1 ELSE a
        r == ScanDigits(s, b, 0)
    IN  IF neg THEN -r[1] ELSE r[1]

\* atof, in hundredths: sign, integer digits, optional point and fraction digits.
atof(s) ==
    LET a == SkipSpace(s, 1)
        neg == a <= Len(s) /\ s[a] = "-"
        b == IF a <= Len(s) /\ s[a] \in {"-", "+"} THEN a + 1 ELSE a
        r == ScanDigits(s, b, 0)
        c == r[2]
        hasPoint == c <= Len(s) /\ s[c] = "."
        d1 == IF hasPoint /\ c + 1 <= Len(s) /\ s[c + 1] \in DOMAIN DigitVal
              THEN DigitVal[s[c + 1]] ELSE 0
        d2 == IF hasPoint /\ c + 2 <= Len(s) /\ s[c + 1] \in DOMAIN DigitVal
                 /\ s[c + 2] \in DOMAIN DigitVal
              THEN DigitVal[s[c + 2]] ELSE 0
        v == r[1] * 100 + d1 * 10 + d2
    IN  IF neg THEN -v ELSE v

\* strtok(line, "\t") and the following strtok(NULL, "\t") calls: the maximal
\* runs of non-delimiter characters, in order; empty runs are skipped.
RECURSIVE Split(_, _, _, _)
Split(s, k, cur, acc) ==
    IF k > Len(s)
    THEN IF cur = <<>> THEN acc ELSE Append(acc, cur)
    ELSE IF s[k] = "\t"
         THEN Split(s, k + 1, <<>>, IF cur = <<>> THEN acc ELSE Append(acc, cur))
         ELSE Split(s, k + 1, Append(cur, s[k]), acc)

strtok(s) == Split(s, 1, <<>>, <<>>)

\* ctime of a time in seconds; a date buffer malloc left unwritten is Uninit.
ctime(sec) == [set |-> TRUE, sec |-> sec]
Uninit == [set |-> FALSE, sec |-> 0]

\* ------------------------------------------------------------ input lines
\* A line is its 9 raw fields; fgets hands analyze_file the fields joined by
\* tabs and ended by the line break.  Every line here is shorter than
\* line_sz - 1 = 99 characters, so fgets returns it whole, and its first field
\* is a two-letter state code, which fits code[3].
RECURSIVE Join(_, _)
Join(fields, k) ==
    IF k > Len(fields) THEN <<"\n">>
    ELSE (IF k = 1 THEN <<>> ELSE <<"\t">>) \o fields[k] \o Join(fields, k + 1)

Flat(fields) == Join(fields, 1)

CA == <<"C", "A">>
TX == <<"T", "X">>

BaseFields(code) ==
    << code, <<"1","9","9","9">>, <<"g">>, <<"5","0">>, <<"0">>, <<"1","0">>,
       <<"0">>, <<"1","0","0">>, <<"2","7","3",".","1","5">> >>

\* What the lines of Spec put in place of a field of the base line.
Variants ==
    { <<2, <<"2","0","0","0">> >>,               \* one second later
      <<2, <<"x">> >>,                           \* non-numeric timestamp
      <<4, <<"x">> >>,                           \* non-numeric humidity
      <<5, <<"1">> >>,                           \* snow
      <<7, <<"1">> >>,                           \* lightning
      <<9, <<"2","8","3",".","1","5">> >>,       \* 50.00F
      <<9, <<"9","0","0">> >>,                   \* 1160.33F
      <<9, <<"-","4","0","0">> >>,               \* -1179.67F
      <<9, <<"8","1","0",".","9","3">> >>,       \* 1000.00F, as 810.9277777777778 is 1000.0 in doubles
      <<9, <<>> >>,                              \* missing temperature
      <<2, <<>> >>,                              \* missing timestamp
      <<4, <<>> >>,                              \* missing humidity
      <<5, <<>> >>,                              \* empty snow flag
      <<6, <<>> >>,                              \* missing cloud cover
      <<7, <<>> >>                               \* empty lightning flag
    }

\* What fgets reads and what strtok then finds in it.
Read(fields) == [fields |-> fields, tok |-> strtok(Flat(fields))]

\* The variants the lines of the second state take.
FewVariants ==
    { <<2, <<"2","0","0","0">> >>,
      <<5, <<"1">> >>,
      <<9, <<"2","8","3",".","1","5">> >> }

Lines ==
    { Read(BaseFields(c)) : c \in {CA, TX} }
    \cup { Read([BaseFields(CA) EXCEPT ![v[1]] = v[2]]) : v \in Variants }
    \cup { Read([BaseFields(TX) EXCEPT ![v[1]] = v[2]]) : v \in FewVariants }

\* The k-th two-letter state code of the lines of SpecFull.
Letters == <<"A", "C", "T", "X", "N", "W", "M", "O">>
CodeOf(k) == << Letters[((k - 1) \div 8) + 1], Letters[((k - 1) % 8) + 1] >>

\* SpecFull reads a file that names a new state on each of its first
\* NUM_STATES lines, and then the first state, a further new state, or a line
\* with no timestamp.
FullLines(n) ==
    IF n < NUM_STATES THEN { Read(BaseFields(CodeOf(n + 1))) }
    ELSE { Read(BaseFields(CodeOf(1))), Read(BaseFields(CodeOf(NUM_STATES + 1))),
           Read([BaseFields(CodeOf(1)) EXCEPT ![2] = <<>>]) }

\* ----------------------------------------------------------- the program
Slots == 0 .. (NUM_STATES - 1)

\* indexOfState: the outcomes of the scan.  Reading states[NUM_STATES] is out
\* of bounds: the word after the array reads as NULL (the scan ends with
\* i = NUM_STATES) or as anything else (the process dies in strcmp or on the
\* stack it then writes over).
RECURSIVE Scan(_, _, _, _)
Scan(st, hp, stateCode, k) ==
    IF k = NUM_STATES
    THEN { [segv |-> FALSE, ret |-> -k], [segv |-> TRUE, ret |-> 0] }
    ELSE IF st[k] = NULL
         THEN { [segv |-> FALSE, ret |-> IF k = 0 THEN -50 ELSE -k] }
         ELSE IF hp[st[k]].code = stateCode
              THEN { [segv |-> FALSE, ret |-> k] }
              ELSE Scan(st, hp, stateCode, k + 1)

\* A scan that returns at the first struct whose code differs (strcmp's result
\* taken for a truth value).
RECURSIVE ScanUnequal(_, _, _, _)
ScanUnequal(st, hp, stateCode, k) ==
    IF k = NUM_STATES
    THEN { [segv |-> FALSE, ret |-> -k], [segv |-> TRUE, ret |-> 0] }
    ELSE IF st[k] = NULL
         THEN { [segv |-> FALSE, ret |-> IF k = 0 THEN -50 ELSE -k] }
         ELSE IF hp[st[k]].code # stateCode
              THEN { [segv |-> FALSE, ret |-> k] }
              ELSE ScanUnequal(st, hp, stateCode, k + 1)

indexOfStateUnequal(st, hp, stateCode) == ScanUnequal(st, hp, stateCode, 0)

indexOfState(st, hp, stateCode) == Scan(st, hp, stateCode, 0)

\* The struct malloc returns, after the initialisation of the create branch.
NewInfo(token) ==
    [ code |-> token, num_records |-> 0, totalHumidity |-> 0,
      totalCloudCover |-> 0, lightningStrikeCount |-> 0, snowCoverCount |-> 0,
      totalTemp |-> 0, maxTemp |-> -100000, minTemp |-> 100000,
      maxTempDate |-> Uninit, minTempDate |-> Uninit ]

\* The slot the create branch stores the new struct in.
CreateIndex(index) == IF index = -50 THEN 0 ELSE -index

\* Kelvin to Fahrenheit, atof(token) * 1.8 - 459.67, in hundredths.
Fahrenheit(k) == CDiv(k * 18, 10) - 45967

\* A fold that forgets ci->num_records++.
NotCounted(ci) == ci

\* ci->num_records++
Counted(ci) == [ci EXCEPT !.num_records = @ + 1]

\* The fold of one record into ci, tok being the tokens strtok finds in the
\* line.  A token the line does not have is NULL: the statement that reads it
\* ends the process, and the statements before it have run.
Fold(ci, tok) ==
    LET n == Len(tok)
        c1 == Counted(ci)
        currentTS == CDiv(atol(tok[2]), 1000)
        c4 == IF n >= 4 THEN [c1 EXCEPT !.totalHumidity = @ + atof(tok[4])] ELSE c1
        c5 == IF n >= 5 /\ tok[5][1] = "1"
              THEN [c4 EXCEPT !.snowCoverCount = @ + 1] ELSE c4
        c6 == IF n >= 6 THEN [c5 EXCEPT !.totalCloudCover = @ + atof(tok[6])] ELSE c5
        c7 == IF n >= 7 /\ tok[7][1] = "1"
              THEN [c6 EXCEPT !.lightningStrikeCount = @ + 1] ELSE c6
        temp == Fahrenheit(atof(tok[9]))
        c9 == [c7 EXCEPT !.totalTemp = @ + temp]
        cmax == IF temp > c9.maxTemp
                THEN [c9 EXCEPT !.maxTemp = temp, !.maxTempDate = ctime(currentTS)]
                ELSE c9
        cmin == IF temp < cmax.minTemp
                THEN [cmax EXCEPT !.minTemp = temp, !.minTempDate = ctime(currentTS)]
                ELSE cmax
    IN  IF n < 2 THEN c1 ELSE IF n < 9 THEN c7 ELSE cmin

\* A line with fewer than 9 tokens makes analyze_file dereference NULL.
Aborts(tok) == Len(tok) < 9

\* --------------------------------------------- what the records really say
\* (history variables, read by the properties only)
FlagSet(field) == field # <<>> /\ field[1] = "1"

\* The record of what was folded into one struct: obs holds, per temperature,
\* the time of the first record that carried it.
NoRecords == [obs |-> {}, snow |-> 0, light |-> 0]

Observe(g, fields) ==
    LET t == Fahrenheit(atof(fields[9]))
        ts == CDiv(atol(fields[2]), 1000)
    IN  [ obs |-> IF \E o \in g.obs : o.t = t THEN g.obs
                  ELSE g.obs \cup {[t |-> t, ts |-> ts]},
          snow |-> g.snow + (IF FlagSet(fields[5]) THEN 1 ELSE 0),
          light |-> g.light + (IF FlagSet(fields[7]) THEN 1 ELSE 0) ]

PosOf(seq, x) == CHOOSE k \in 1 .. Len(seq) : seq[k] = x
InSeq(seq, x) == \E k \in 1 .. Len(seq) : seq[k] = x

\* ------------------------------------------------------------------ state
Init ==
    /\ pc = "start"
    /\ argc \in 1 .. (MaxFiles + 1)
    /\ i = 1
    /\ states = [k \in Slots |-> NULL]
    /\ heap = <<>>
    /\ line = <<>>
    /\ stdout = <<>>
    /\ nread = 0
    /\ seen = <<>>
    /\ nfolded = <<>>
    /\ gh = <<>>

\* main, up to the loop over the files.
Start ==
    /\ pc = "start"
    /\ IF argc < 2
       THEN /\ pc' = "exit_failure"
            /\ stdout' = Append(stdout, <<"Usage", 0>>)
       ELSE /\ pc' = "loop"
            /\ stdout' = stdout
    /\ UNCHANGED <<argc, i, states, heap, line, nread, seen, nfolded, gh>>

\* main: fopen of argv[i]; a file that does not open is reported and skipped.
OpenFile ==
    /\ pc = "loop"
    /\ i < argc
    /\ \E opened \in BOOLEAN :
          IF opened
          THEN /\ pc' = "analyze"
               /\ i' = i
               /\ stdout' = Append(stdout, <<"Opening file", i>>)
          ELSE /\ pc' = "loop"
               /\ i' = i + 1
               /\ stdout' = Append(Append(stdout, <<"Opening file", i>>),
                                   <<"Error File", i>>)
    /\ UNCHANGED <<argc, states, heap, line, nread, seen, nfolded, gh>>

\* analyze_file: fgets returns a line and the body of the while loop runs.
FoldLine(input, max) ==
    /\ pc = "analyze"
    /\ nread < max
    /\ \E ln \in input :
       LET fields == ln.fields
           tok == ln.tok IN
       \E r \in indexOfState(states, heap, tok[1]) :
       LET create == r.ret < 0
           index == IF create THEN CreateIndex(r.ret) ELSE r.ret
           heap1 == IF create THEN Append(heap, NewInfo(tok[1])) ELSE heap
           states1 == IF create THEN [states EXCEPT ![index] = Len(heap1)] ELSE states
           ci == states1[index]
           gh1 == IF create THEN Append(gh, NoRecords) ELSE gh
       IN  /\ line' = fields
           /\ nread' = nread + 1
           /\ IF r.segv
              THEN /\ pc' = "crashed"
                   /\ UNCHANGED <<states, heap, seen, nfolded, gh>>
              ELSE /\ states' = states1
                   /\ heap' = [heap1 EXCEPT ![ci] = Fold(@, tok)]
                   /\ IF Aborts(tok)
                      THEN /\ pc' = "crashed"
                           /\ gh' = gh1
                           /\ UNCHANGED <<seen, nfolded>>
                      ELSE /\ pc' = "analyze"
                           /\ gh' = [gh1 EXCEPT ![ci] = Observe(@, fields)]
                           /\ IF InSeq(seen, fields[1])
                              THEN /\ seen' = seen
                                   /\ nfolded' = [nfolded EXCEPT
                                                    ![PosOf(seen, fields[1])] = @ + 1]
                              ELSE /\ seen' = Append(seen, fields[1])
                                   /\ nfolded' = Append(nfolded, 1)
    /\ UNCHANGED <<argc, i, stdout>>

AnalyzeLine == FoldLine(Lines, MaxRecords)

AnalyzeLineFull == FoldLine(FullLines(nread), NUM_STATES + ExtraRecords)

\* analyze_file: fgets returns NULL; main closes the file and goes on.
EndOfFile ==
    /\ pc = "analyze"
    /\ pc' = "loop"
    /\ i' = i + 1
    /\ UNCHANGED <<argc, states, heap, line, stdout, nread, seen, nfolded, gh>>

\* sum / num_records in doubles: a zero count gives NaN or an infinity.
Average(sum, n) ==
    IF n = 0 THEN [nan |-> TRUE, v |-> 0] ELSE [nan |-> FALSE, v |-> CDiv(sum, n)]

\* The slots of the table that hold a struct, in index order.
RECURSIVE Used(_, _)
Used(st, k) ==
    IF k = NUM_STATES THEN <<>>
    ELSE (IF st[k] # NULL THEN <<st[k]>> ELSE <<>>) \o Used(st, k + 1)

\* One block of the report; a date never written prints whatever is there.
Block(info, garbage) ==
    [ code |-> info.code,
      records |-> info.num_records,
      humidity |-> Average(info.totalHumidity, info.num_records),
      temperature |-> Average(info.totalTemp, info.num_records),
      maxTemp |-> info.maxTemp,
      maxOn |-> IF info.maxTempDate.set THEN info.maxTempDate ELSE garbage,
      minTemp |-> info.minTemp,
      minOn |-> IF info.minTempDate.set THEN info.minTempDate ELSE garbage,
      lightning |-> info.lightningStrikeCount,
      snow |-> info.snowCoverCount,
      cloud |-> Average(info.totalCloudCover, info.num_records) ]

Garbage == { Uninit, ctime(0) }

\* main: every file is done; print_report, then return 0.
PrintReport ==
    /\ pc = "loop"
    /\ i = argc
    /\ \E garbage \in Garbage :
       LET used == Used(states, 0) IN
       stdout' = stdout
           \o << <<"States found", [k \in 1 .. Len(used) |-> heap[used[k]].code]>> >>
           \o [k \in 1 .. Len(used) |-> <<"State", Block(heap[used[k]], garbage)>>]
    /\ pc' = "done"
    /\ UNCHANGED <<argc, i, states, heap, line, nread, seen, nfolded, gh>>

Next == Start \/ OpenFile \/ AnalyzeLine \/ EndOfFile \/ PrintReport

Spec == Init /\ [][Next]_vars

NextFull == Start \/ OpenFile \/ AnalyzeLineFull \/ EndOfFile \/ PrintReport

SpecFull == Init /\ [][NextFull]_vars

\* ------------------------------------------------------------- properties
Live == pc # "crashed"

Entries == { k \in Slots : states[k] # NULL }

\* The blocks print_report has printed, in order.
RECURSIVE Blocks(_, _)
Blocks(out, k) ==
    IF k > Len(out) THEN <<>>
    ELSE (IF out[k][1] = "State" THEN <<out[k][2]>> ELSE <<>>) \o Blocks(out, k + 1)

\* The codes on the "States found" line, <<>> before it is printed.
RECURSIVE Found(_, _)
Found(out, k) ==
    IF k > Len(out) THEN <<>>
    ELSE IF out[k][1] = "States found" THEN out[k][2] ELSE Found(out, k + 1)

EmptyFields(fields) == { k \in 1 .. Len(fields) : fields[k] = <<>> }

MaxOf(obs) == CHOOSE o \in obs : \A o2 \in obs : o2.t <= o.t
MinOf(obs) == CHOOSE o \in obs : \A o2 \in obs : o2.t >= o.t

\* C1: while the run lasts, the table holds exactly one struct per state code
\* read so far: no two slots hold the same code, and every code of a folded
\* record is the code of some slot.
C1_OneEntryPerCode ==
    Live =>
        /\ \A j, k \in Entries :
              j # k => heap[states[j]].code # heap[states[k]].code
        /\ \A n \in 1 .. Len(seen) :
              \E k \in Entries : heap[states[k]].code = seen[n]

\* C2: a struct that is in the table stays in its slot with its code, whatever
\* record comes next and however many state codes the input names; its record
\* count never goes back.
C2_EntryKept ==
    [][ \A k \in Slots :
           states[k] # NULL =>
              /\ states'[k] = states[k]
              /\ heap'[states[k]].code = heap[states[k]].code
              /\ heap'[states[k]].num_records >= heap[states[k]].num_records ]_vars

\* C3: in the report, every state code read has a block, and the record count
\* of a block is the number of records of its code folded in the whole run.
C3_RecordCount ==
    pc = "done" =>
        LET blocks == Blocks(stdout, 1) IN
        /\ \A n \in 1 .. Len(seen) :
              \E b \in 1 .. Len(blocks) :
                 blocks[b].code = seen[n] /\ blocks[b].records = nfolded[n]
        /\ \A b \in 1 .. Len(blocks) :
              /\ InSeq(seen, blocks[b].code)
              /\ blocks[b].records = nfolded[PosOf(seen, blocks[b].code)]

\* C4: once a record has been folded into a struct, its maxTemp is the largest
\* and its minTemp the smallest of the converted temperatures folded into it.
C4_TrueExtrema ==
    Live =>
        \A p \in 1 .. Len(heap) :
           gh[p].obs # {} =>
              /\ heap[p].maxTemp = MaxOf(gh[p].obs).t
              /\ heap[p].minTemp = MinOf(gh[p].obs).t

\* C5: when the stored maximum (minimum) is the temperature of a folded record,
\* the date stored with it is the time, in whole seconds, of the first folded
\* record with that temperature.
C5_FirstTimestamp ==
    Live =>
        \A p \in 1 .. Len(heap) :
           \A o \in gh[p].obs :
              /\ o.t = heap[p].maxTemp => heap[p].maxTempDate = ctime(o.ts)
              /\ o.t = heap[p].minTemp => heap[p].minTempDate = ctime(o.ts)

\* C6: a line whose only empty fields are flags is folded, and the snow and
\* lightning counters of every struct are the numbers of records folded into
\* it whose 5th, respectively 7th, field begins with '1'.
C6_FlagCounts ==
    IF Live
    THEN \A p \in 1 .. Len(heap) :
            /\ heap[p].snowCoverCount = gh[p].snow
            /\ heap[p].lightningStrikeCount = gh[p].light
    ELSE ~(EmptyFields(line) # {} /\ EmptyFields(line) \subseteq {5, 7})

C8_InsertionOrder ==
    pc = "done" =>
        LET blocks == Blocks(stdout, 1) IN
        /\ Found(stdout, 1) = seen
        /\ [b \in 1 .. Len(blocks) |-> blocks[b].code] = seen

\* C9: a line whose only empty fields are numeric fields does not end the run.
C9_NoAbort ==
    ~( /\ pc = "crashed"
       /\ EmptyFields(line) # {}
       /\ EmptyFields(line) \subseteq {2, 4, 6, 9} )

\* C10: when print_report is called every struct of the table has a record
\* count of at least 1, and no average of the report is a division by zero.
C10_NoZeroCount ==
    /\ (pc = "loop" /\ i = argc) =>
          \A k \in Entries : heap[states[k]].num_records >= 1
    /\ pc = "done" =>
          LET blocks == Blocks(stdout, 1) IN
          \A b \in 1 .. Len(blocks) :
             ~blocks[b].humidity.nan /\ ~blocks[b].temperature.nan
             /\ ~blocks[b].cloud.nan

\* C10 witness: a report with the blocks of two states has been printed.
C10_Reported ==
    /\ pc = "done"
    /\ Len(Blocks(stdout, 1)) = 2

====
